---- MODULE Spec2Model ----
(***************************************************************************)
(* A model of modules/core/src/compiler/view.js: ProtoView (the template   *)
(* descriptor and its binding-registration API), ProtoView.instantiate,    *)
(* the View lifecycle (hydrate / dehydrate / setLocal) and the change      *)
(* dispatch (onRecordChange).                                              *)
(*                                                                         *)
(* Lists are TLA+ sequences (1-based); every index the program stores      *)
(* (binder index, memento index, directive index) keeps the program's      *)
(* 0-based value and is shifted by one where a list is read.               *)
(***************************************************************************)
EXTENDS Integers, Sequences, FiniteSets, TLC

VARIABLES
  protos,     \* the ProtoViews under construction / in use, by ProtoView id
  views,      \* the heap of View objects, by View id (allocation order)
  groups,     \* _groups: the interned DirectivePropertyGroupMementos, by id
  history,    \* history: per View, how its last lifecycle call ended ("new",
              \* "hydrated", "dehydrated", or "failed" for a hydrate that threw
              \* after it began); whether any call ever threw midway; and the
              \* progress of a hydrate, dehydrate, hydrate cycle
  before,     \* the View the last call was made on, as it was when the call began
  lastCall,   \* the last public operation called, with its arguments
  result,     \* how that call ended: "ok" or the error it threw
  log,        \* the steps that call performed, in order
  listeners   \* the DOM event listeners registered with DOM.on, in order

vars == <<protos, views, groups, history, before, lastCall, result, log, listeners>>

----------------------------------------------------------------------------
(* Bounds of the model *)

\* total number of bindElement calls over all ProtoViews
MaxBinders == 2
\* number of top-level instantiate calls
MaxRootViews == 1
\* number of Views in a heap on which a caller constructs a View itself
MaxConstructed == 2
\* total number of bindTextNode, bindElementProperty and
\* bindDirectiveProperty calls over all ProtoViews
MaxBindings == 2

(* Value domains *)

\* null / undefined object reference
Null == [kind |-> "null"]
isPresent(x) == x # Null
isBlank(x) == x = Null

\* ProtoView ids; a component binder of ProtoView p nests a ProtoView q > p
PvIds == {1, 2}
NoPv == 0
\* the id of the ProtoView createRootProtoView returns
RootPvId == 3

\* contexts handed to hydrate by the caller
Ctx(n) == [kind |-> "context", id |-> n]
Contexts == {Null, Ctx(1), Ctx(2)}

\* application injectors
AppInjector == [kind |-> "Injector", path |-> <<>>]

\* local-variable names and values
ContextNames == {"a", "b"}
TemplateNames == {"x", "y"}
NoValue == "null"
Values == {"v1", "v2"}

\* bound text nodes by their position among the children of their element,
\* property names, and the directive slots of an element injector
TextIndices == {0, 1}
SetterNames == {"p", "q"}
DirectiveIndices == {0, 1}

\* no parent ProtoElementInjector
NoParent == -1

\* component directive metadata: annotation.componentServices present or
\* not, and whether its shadowDomStrategy constructs a LightDom
ComponentDirectives ==
  { [kind |-> "DirectiveMetadata", componentServices |-> TRUE,  lightDom |-> TRUE],
    [kind |-> "DirectiveMetadata", componentServices |-> FALSE, lightDom |-> FALSE] }
TemplateDirective == [kind |-> "DirectiveMetadata", componentServices |-> FALSE, lightDom |-> FALSE]

\* template root elements: whether the root carries the ng-binding class
Templates == { [kind |-> "Element", ngBinding |-> b] : b \in BOOLEAN }

EmptyMap == [k \in {} |-> NoValue]
MapSet(m, k, v) == [j \in DOMAIN m \cup {k} |-> IF j = k THEN v ELSE m[j]]
MapContains(m, k) == k \in DOMAIN m

Last(s) == s[Len(s)]
\* a list with one slot too many
FixedSize_OneMore(n) == [k \in 1..(n + 1) |-> Null]

FixedSize(n) == [k \in 1..n |-> Null]

\* DOM elements: the template root of ProtoView p, its clone made for View v,
\* and the bound (ng-binding) descendants of either, in document order
TemplateRoot(p) == [kind |-> "Element", owner |-> "template", id |-> p, pos |-> -1]
CloneRoot(v) == [kind |-> "Element", owner |-> "view", id |-> v, pos |-> -1]
BoundDescendant(root, k) == [root EXCEPT !.pos = k]

\* references to the mutable objects a View owns
InjRef(v, i) == [kind |-> "ElementInjectorRef", view |-> v, index |-> i]
ViewPortRef(v, k) == [kind |-> "ViewPortRef", view |-> v, index |-> k]
LightDomRef(v, i) == [kind |-> "LightDom", view |-> v, index |-> i]
\* the directive instance in slot d of the injector of binder i of View v
Directive(v, i, d) == [kind |-> "directive", view |-> v, index |-> i, slot |-> d]

----------------------------------------------------------------------------
(* ProtoView: constructor and binding-registration API *)

ProtoViewNew(template) ==
  [ element                   |-> template,
    elementBinders            |-> <<>>,
    variableBindings          |-> EmptyMap,
    protoContextLocals        |-> EmptyMap,
    protoRecordRange          |-> <<>>,
    textNodesWithBindingCount |-> 0,
    elementsWithBindingCount  |-> 0,
    instantiateInPlace        |-> FALSE,
    rootBindingOffset         |-> IF isPresent(template) /\ template.ngBinding THEN 1 ELSE 0 ]

ProtoElementInjectorNew(parent, index) ==
  [kind |-> "ProtoElementInjector", parent |-> parent, index |-> index]

ElementBinderNew(protoElementInjector, componentDirective, templateDirective) ==
  [ protoElementInjector       |-> protoElementInjector,
    componentDirective         |-> componentDirective,
    templateDirective          |-> templateDirective,
    nestedProtoView            |-> NoPv,
    textNodeIndices            |-> <<>>,   \* the empty list stands for null
    hasElementPropertyBindings |-> FALSE,
    events                     |-> EmptyMap ]   \* the empty map stands for null

\* MapWrapper.set on a map that keeps its keys in insertion order, as the
\* list of its entries: a key already there keeps its place
MapEntry(key, value) == [key |-> key, value |-> value]
OrderedMapSet(m, key, value) ==
  IF \E k \in DOMAIN m : m[k].key = key
  THEN [k \in DOMAIN m |-> IF m[k].key = key THEN MapEntry(key, value) ELSE m[k]]
  ELSE Append(m, MapEntry(key, value))

\* bindElement, followed by the caller's assignment of nestedProtoView on
\* the binder it returns (as createRootProtoView does)
bindElement(pv, protoElementInjector, componentDirective, templateDirective, nested) ==
  LET elBinder == [ElementBinderNew(protoElementInjector, componentDirective, templateDirective)
                     EXCEPT !.nestedProtoView = nested]
  IN  [pv EXCEPT !.elementBinders = Append(@, elBinder)]

\* bindEvent(eventName, expression): on the last binder; a null events map
\* is created first
bindEvent(pv, eventName, expression) ==
  LET n == Len(pv.elementBinders)
  IN  [pv EXCEPT !.elementBinders[n].events = OrderedMapSet(@, eventName, expression)]

bindVariable(pv, contextName, templateName) ==
  [pv EXCEPT !.variableBindings   = MapSet(@, contextName, templateName),
             !.protoContextLocals = MapSet(@, templateName, NoValue)]

\* createRootProtoView that leaves instantiateInPlace as the constructor set it
createRootProtoView_Cloned(protoView, insertionElement, rootComponentAnnotatedType) ==
  LET rootProtoView == ProtoViewNew([insertionElement EXCEPT !.ngBinding = TRUE])
      bound == bindElement(rootProtoView, ProtoElementInjectorNew(NoParent, 0), Null, Null, NoPv)
  IN  [bound EXCEPT !.elementBinders[1].componentDirective = rootComponentAnnotatedType,
                    !.elementBinders[1].nestedProtoView = protoView]

\* createRootProtoView: DOM.addClass gives insertionElement the ng-binding
\* class before the ProtoView is constructed on it
createRootProtoView(protoView, insertionElement, rootComponentAnnotatedType) ==
  LET rootProtoView == [ProtoViewNew([insertionElement EXCEPT !.ngBinding = TRUE])
                          EXCEPT !.instantiateInPlace = TRUE]
      bound == bindElement(rootProtoView, ProtoElementInjectorNew(NoParent, 0), Null, Null, NoPv)
  IN  [bound EXCEPT !.elementBinders[1].componentDirective = rootComponentAnnotatedType,
                    !.elementBinders[1].nestedProtoView = protoView]

\* ProtoRecordRange.addRecordsFromAST(expression, memento, groupMemento):
\* one more proto record that dispatches to memento within groupMemento
addRecordsFromAST(protoRecordRange, expression, memento, groupMemento) ==
  Append(protoRecordRange,
         [expression |-> expression, memento |-> memento, groupMemento |-> groupMemento])

\* the expression the compiler read on the element of binder i
AST(i) == [kind |-> "AST", element |-> i]

\* a text-node memento is the plain integer
TextNodeMemento(n) == [kind |-> "int", value |-> n]

\* new ElementPropertyMemento(elementIndex, setterName, setter); ref tells
\* one memento object of a ProtoView from another, the setter is the
\* function that sets the property named setterName
ElementPropertyMementoNew(ref, elementIndex, setterName) ==
  [kind |-> "ElementPropertyMemento", ref |-> ref,
   elementIndex |-> elementIndex, setterName |-> setterName]

\* new DirectivePropertyMemento(elementInjectorIndex, directiveIndex, setterName, setter)
DirectivePropertyMementoNew(ref, elementInjectorIndex, directiveIndex, setterName) ==
  [kind |-> "DirectivePropertyMemento", ref |-> ref,
   elementInjectorIndex |-> elementInjectorIndex, directiveIndex |-> directiveIndex,
   setterName |-> setterName]

DirectivePropertyGroupMementoNew(elementInjectorIndex, directiveIndex) ==
  [kind |-> "DirectivePropertyGroupMemento",
   elementInjectorIndex |-> elementInjectorIndex, directiveIndex |-> directiveIndex]

\* DirectivePropertyGroupMemento.get(memento) on the table G of interned
\* group mementos: the table afterwards and the group memento returned
DirectivePropertyGroupMementoGet(G, memento) ==
  LET elementInjectorIndex == memento.elementInjectorIndex
      directiveIndex == memento.directiveIndex
      id == elementInjectorIndex * 100 + directiveIndex
      G1 == IF ~MapContains(G, id)
            THEN MapSet(G, id, DirectivePropertyGroupMementoNew(elementInjectorIndex, directiveIndex))
            ELSE G
  IN  [groups |-> G1, ret |-> G1[id]]

bindTextNode(pv, indexInParent, expression) ==
  LET n == Len(pv.elementBinders)
      memento == TextNodeMemento(pv.textNodesWithBindingCount)
  IN  [pv EXCEPT !.elementBinders[n].textNodeIndices = Append(@, indexInParent),
                 !.textNodesWithBindingCount = @ + 1,
                 !.protoRecordRange = addRecordsFromAST(@, expression, memento, memento)]

\* bindElementProperty storing the count of bound elements as the index
bindElementProperty_CountAsIndex(pv, expression, setterName) ==
  LET n == Len(pv.elementBinders)
      elBinder == pv.elementBinders[n]
      elementsWithBindingCount ==
        IF ~elBinder.hasElementPropertyBindings
        THEN pv.elementsWithBindingCount + 1 ELSE pv.elementsWithBindingCount
      memento == ElementPropertyMementoNew(Len(pv.protoRecordRange),
                                           elementsWithBindingCount, setterName)
  IN  [pv EXCEPT !.elementBinders[n].hasElementPropertyBindings = TRUE,
                 !.elementsWithBindingCount = elementsWithBindingCount,
                 !.protoRecordRange = addRecordsFromAST(@, expression, memento, memento)]

bindElementProperty(pv, expression, setterName) ==
  LET n == Len(pv.elementBinders)
      elBinder == pv.elementBinders[n]
      elementsWithBindingCount ==
        IF ~elBinder.hasElementPropertyBindings
        THEN pv.elementsWithBindingCount + 1 ELSE pv.elementsWithBindingCount
      memento == ElementPropertyMementoNew(Len(pv.protoRecordRange),
                                           elementsWithBindingCount - 1, setterName)
  IN  [pv EXCEPT !.elementBinders[n].hasElementPropertyBindings = TRUE,
                 !.elementsWithBindingCount = elementsWithBindingCount,
                 !.protoRecordRange = addRecordsFromAST(@, expression, memento, memento)]

\* bindDirectiveProperty on the table G: the ProtoView and the table afterwards
bindDirectiveProperty(G, pv, directiveIndex, expression, setterName) ==
  LET expMemento == DirectivePropertyMementoNew(Len(pv.protoRecordRange),
                      Len(pv.elementBinders) - 1, directiveIndex, setterName)
      got == DirectivePropertyGroupMementoGet(G, expMemento)
      groupMemento == got.ret
  IN  [pv |-> [pv EXCEPT !.protoRecordRange =
                           addRecordsFromAST(@, expression, expMemento, groupMemento)],
       groups |-> got.groups]

----------------------------------------------------------------------------
(* Collaborators of view.js *)

\* ProtoElementInjector.instantiate(parent, host): a fresh injector with no
\* directive instantiated
\* a fresh injector that was not given its parent
ElementInjectorNew_Detached(parent, host) ==
  [kind |-> "ElementInjector", parent |-> Null, host |-> host, instantiated |-> FALSE]

ElementInjectorNew(parent, host) ==
  [kind |-> "ElementInjector", parent |-> parent, host |-> host, instantiated |-> FALSE]

\* new ViewPort(parentView, templateElement, defaultProtoView, elementInjector, lightDom)
ViewPortNew(view, element, nestedProtoView, elementInjector, destLightDom) ==
  [ kind |-> "ViewPort", parentView |-> view, templateElement |-> element,
    defaultProtoView |-> nestedProtoView, elementInjector |-> elementInjector,
    lightDom |-> destLightDom, hydrated |-> FALSE ]

PreBuiltObjectsNew(view, element, viewPort, lightDom) ==
  [kind |-> "PreBuiltObjects", view |-> view, element |-> element,
   viewPort |-> viewPort, lightDom |-> lightDom]

\* new ContextWithVariableBindings(parent, varBindings)
ContextWithVariableBindingsNew(parent, varBindings) ==
  [kind |-> "ContextWithVariableBindings", parent |-> parent, varBindings |-> varBindings]
\* the View's context when it has locals: its own contextWithLocals object
LocalsRef(v) == [kind |-> "ContextWithVariableBindingsRef", view |-> v]

\* the directive classes: the one in slot 0 of an element injector
\* implements OnChange, the one in slot 1 does not
instanceofOnChange(dir) == isPresent(dir) /\ dir.slot = 0

\* a Record of the View's record range that change detection found changed
RecordNew(protoRecord, currentValue, previousValue) ==
  [memento |-> protoRecord.memento, groupMemento |-> protoRecord.groupMemento,
   currentValue |-> currentValue, previousValue |-> previousValue]

----------------------------------------------------------------------------
(* View: constructor and init *)

\* the list fields of a View; the constructor leaves them null, and
\* nullLists names the ones that are null (such a field holds <<>>)
ListNames ==
  {"elementInjectors", "rootElementInjectors", "textNodes", "bindElements",
   "componentChildViews", "viewPorts", "preBuiltObjects"}
\* null passed to init in the place of the list of viewports
NullList == <<[kind |-> "nullList"]>>

ViewNew(p, nodes, protoContextLocals) ==
  [ proto                |-> p,
    nodes                |-> nodes,
    recordRange          |-> [context |-> Null, ranges |-> <<>>],
    elementInjectors     |-> <<>>,
    rootElementInjectors |-> <<>>,
    textNodes            |-> <<>>,
    bindElements         |-> <<>>,
    componentChildViews  |-> <<>>,
    viewPorts            |-> <<>>,
    preBuiltObjects      |-> <<>>,
    nullLists            |-> ListNames,
    context              |-> Null,
    contextWithLocals    |->
      IF Cardinality(DOMAIN protoContextLocals) > 0
      THEN ContextWithVariableBindingsNew(Null, protoContextLocals)
      ELSE Null ]

init(view, elementInjectors, rootElementInjectors, textNodes, bindElements, viewPorts, preBuiltObjects, componentChildViews) ==
  [view EXCEPT !.elementInjectors     = elementInjectors,
               !.rootElementInjectors = rootElementInjectors,
               !.textNodes            = textNodes,
               !.bindElements         = bindElements,
               !.viewPorts            = IF viewPorts = NullList THEN <<>> ELSE viewPorts,
               !.nullLists            = IF viewPorts = NullList THEN {"viewPorts"} ELSE {},
               !.preBuiltObjects      = preBuiltObjects,
               !.componentChildViews  = componentChildViews]

----------------------------------------------------------------------------
(* ProtoView.instantiate *)

\* A heap under construction: the View objects, the error thrown so far
\* ("none" when none), and the value the last call returned.
Heap(vs, ls) == [views |-> vs, err |-> "none", ret |-> 0, listeners |-> ls]

\* DOM.on(element, eventName, callback) for every entry of binder.events;
\* the callback closes over the View, the element and the expression
ListenerNew(view, element, eventName, expr) ==
  [view |-> view, element |-> element, eventName |-> eventName, expr |-> expr]
listenersOf(view, element, events) ==
  [k \in DOMAIN events |-> ListenerNew(view, element, events[k].key, events[k].value)]
Throw(H, e) == [H EXCEPT !.err = e]

\* The text nodes of one binder: a single forward scan over the children,
\* k never moving back. A text node is named by its parent element and its
\* position among the parent's children.
TextNode(element, k) == [kind |-> "Text", parent |-> element, indexInParent |-> k]
RECURSIVE textNodesOf(_, _, _, _)
textNodesOf(element, textNodeIndices, j, k) ==
  IF j > Len(textNodeIndices) THEN <<>>
  ELSE LET index == textNodeIndices[j]
           k2 == IF k < index THEN index ELSE k
       IN  <<TextNode(element, k2)>> \o textNodesOf(element, textNodeIndices, j + 1, k2)

\* _parentElementLightDom; reading .parent of a null proto injector, or
\* .lightDom of a missing PreBuiltObjects, is a TypeError
parentElementLightDomThrows(protoElementInjector, preBuiltObjects) ==
  \/ isBlank(protoElementInjector)
  \/ /\ protoElementInjector.parent # NoParent
     /\ \/ protoElementInjector.parent + 1 > Len(preBuiltObjects)
        \/ isBlank(preBuiltObjects[protoElementInjector.parent + 1])

parentElementLightDom(protoElementInjector, preBuiltObjects) ==
  LET p == protoElementInjector.parent
  IN  IF p # NoParent THEN preBuiltObjects[p + 1].lightDom ELSE Null

RECURSIVE instantiate(_, _, _, _)
RECURSIVE instantiateBinders(_, _, _, _, _, _, _)

\* The loop over the element binders, from binder i on. acc holds the lists
\* built so far. Returns the heap and the lists.
instantiateBinders(P, H, p, v, i, acc, hostElementInjector) ==
  LET pv == P[p]
      binders == pv.elementBinders
  IN
  IF H.err # "none" \/ i >= Len(binders) THEN [H |-> H, acc |-> acc]
  ELSE
    LET binder == binders[i + 1]
        rootElementClone == IF pv.instantiateInPlace THEN TemplateRoot(p) ELSE CloneRoot(v)
        element == IF i = 0 /\ pv.rootBindingOffset = 1
                   THEN rootElementClone
                   ELSE BoundDescendant(rootElementClone, i - pv.rootBindingOffset)
        protoElementInjector == binder.protoElementInjector
        hasParent == isPresent(protoElementInjector) /\ protoElementInjector.parent # NoParent
        \* elementInjectors and rootElementInjectors
        parentElementInjector ==
          IF hasParent /\ isPresent(acc.elementInjectors[protoElementInjector.parent + 1])
          THEN InjRef(v, protoElementInjector.parent) ELSE Null
        elementInjector ==
          IF isPresent(protoElementInjector)
          THEN IF hasParent THEN ElementInjectorNew(parentElementInjector, Null)
                            ELSE ElementInjectorNew(Null, hostElementInjector)
          ELSE Null
        rootElementInjectors ==
          IF isPresent(protoElementInjector) /\ ~hasParent
          THEN Append(acc.rootElementInjectors, InjRef(v, i))
          ELSE acc.rootElementInjectors
        elementsWithPropertyBindings ==
          IF binder.hasElementPropertyBindings
          THEN Append(acc.elementsWithPropertyBindings, element)
          ELSE acc.elementsWithPropertyBindings
        \* textNodes
        textNodes == acc.textNodes \o textNodesOf(element, binder.textNodeIndices, 1, 0)
        \* componentChildViews
        isComponent == isPresent(binder.componentDirective)
        H1 == IF ~isComponent THEN H
              ELSE IF binder.nestedProtoView = NoPv THEN Throw(H, "TypeError")
              ELSE instantiate(P, H, binder.nestedProtoView,
                               IF isPresent(elementInjector) THEN InjRef(v, i) ELSE Null)
        childView == H1.ret
        H2 == IF isComponent /\ H1.err = "none"
              THEN [H1 EXCEPT !.views[v].recordRange.ranges = Append(@, childView)]
              ELSE H1
        lightDom == IF isComponent /\ binder.componentDirective.lightDom
                    THEN LightDomRef(v, i) ELSE Null
        componentChildViews ==
          IF isComponent THEN Append(acc.componentChildViews, childView)
          ELSE acc.componentChildViews
        \* viewPorts
        isTemplate == isPresent(binder.templateDirective)
        viewPortThrows ==
          isTemplate /\ parentElementLightDomThrows(protoElementInjector, acc.preBuiltObjects)
        viewPorts ==
          IF isTemplate /\ ~viewPortThrows
          THEN Append(acc.viewPorts,
                 ViewPortNew(v, element, binder.nestedProtoView,
                             IF isPresent(elementInjector) THEN InjRef(v, i) ELSE Null,
                             parentElementLightDom(protoElementInjector, acc.preBuiltObjects)))
          ELSE acc.viewPorts
        viewPort == IF isTemplate THEN ViewPortRef(v, Len(viewPorts) - 1) ELSE Null
        \* preBuiltObjects
        preBuiltObjects ==
          IF isPresent(elementInjector)
          THEN [acc.preBuiltObjects EXCEPT
                  ![i + 1] = PreBuiltObjectsNew(v, element, viewPort, lightDom)]
          ELSE acc.preBuiltObjects
        acc2 == [ elementInjectors |-> [acc.elementInjectors EXCEPT ![i + 1] = elementInjector],
                  rootElementInjectors |-> rootElementInjectors,
                  textNodes |-> textNodes,
                  elementsWithPropertyBindings |-> elementsWithPropertyBindings,
                  preBuiltObjects |-> preBuiltObjects,
                  viewPorts |-> viewPorts,
                  componentChildViews |-> componentChildViews ]
    IN
    IF H2.err # "none" THEN [H |-> H2, acc |-> acc]
    ELSE IF viewPortThrows THEN [H |-> Throw(H2, "TypeError"), acc |-> acc]
    ELSE \* events
         LET H3 == [H2 EXCEPT !.listeners = @ \o listenersOf(v, element, binder.events)]
         IN  instantiateBinders(P, H3, p, v, i + 1, acc2, hostElementInjector)

\* instantiate(hostElementInjector) on ProtoView p: allocates the View (and,
\* inside the loop, its nested component Views) on the heap and returns its id
instantiate(P, H, p, hostElementInjector) ==
  LET pv == P[p]
      v == Len(H.views) + 1
      rootElementClone == IF pv.instantiateInPlace THEN TemplateRoot(p) ELSE CloneRoot(v)
      viewNodes == <<rootElementClone>>
      view == ViewNew(p, viewNodes, pv.protoContextLocals)
      H1 == [H EXCEPT !.views = Append(@, view)]
      n == Len(pv.elementBinders)
      acc0 == [ elementInjectors |-> FixedSize(n),
                rootElementInjectors |-> <<>>,
                textNodes |-> <<>>,
                elementsWithPropertyBindings |-> <<>>,
                preBuiltObjects |-> FixedSize(n),
                viewPorts |-> <<>>,
                componentChildViews |-> <<>> ]
      r == instantiateBinders(P, H1, p, v, 0, acc0, hostElementInjector)
      a == r.acc
  IN  IF r.H.err # "none" THEN r.H
      ELSE [r.H EXCEPT
              !.views[v] = init(@, a.elementInjectors, a.rootElementInjectors, a.textNodes,
                                a.elementsWithPropertyBindings, a.viewPorts,
                                a.preBuiltObjects, a.componentChildViews),
              !.ret = v]

----------------------------------------------------------------------------
(* View: lifecycle *)

\* A run of one public call: the heap, the steps performed so far (the calls
\* made on collaborators and the writes of the context field, each with
\* what view.hydrated() answers at that moment), and the error thrown.
Run(vs) == [views |-> vs, log |-> <<>>, err |-> "none"]
Outcome(err) == IF err = "none" THEN "ok" ELSE err
Raise(R, e) == [R EXCEPT !.err = e]

hydrated(view) == isPresent(view.context)

Emit(R, v, e) == [R EXCEPT !.log = Append(@, e @@ [view |-> v, hydrated |-> hydrated(R.views[v])])]

\* Injector.createChild(services)
createChild(appInjector, v, i) == [appInjector EXCEPT !.path = Append(@, <<v, i>>)]

\* ElementInjector.getComponent(): the component instance once the
\* directives are instantiated
getComponent(R, v, i) ==
  IF R.views[v].elementInjectors[i + 1].instantiated THEN Directive(v, i, 0) ELSE Null

\* ElementInjector.getAtIndex(d)
getAtIndex(R, v, i, d) ==
  IF R.views[v].elementInjectors[i + 1].instantiated THEN Directive(v, i, d) ELSE Null

hydrateContext(R, v, newContext) ==
  LET view == R.views[v]
      context == IF isPresent(view.contextWithLocals) THEN LocalsRef(v) ELSE newContext
      R1 == IF isPresent(view.contextWithLocals)
            THEN [R EXCEPT !.views[v].contextWithLocals.parent = newContext]
            ELSE R
      R2 == Emit([R1 EXCEPT !.views[v].context = context], v,
                 [op |-> "context=", value |-> context])
  IN  Emit([R2 EXCEPT !.views[v].recordRange.context = context], v,
           [op |-> "recordRange.setContext", value |-> context])

\* a dehydrate that also forgets the text nodes
dehydrateContext_DropTextNodes(R, v) ==
  Emit([R EXCEPT !.views[v].context = Null, !.views[v].textNodes = <<>>], v,
       [op |-> "context=", value |-> Null])

dehydrateContext(R, v) ==
  LET view == R.views[v]
      R1 == IF isPresent(view.contextWithLocals)
            THEN Emit([R EXCEPT !.views[v].contextWithLocals.varBindings =
                                  [k \in DOMAIN @ |-> NoValue]], v,
                      [op |-> "contextWithLocals.clearValues"])
            ELSE R
  IN  Emit([R1 EXCEPT !.views[v].context = Null], v, [op |-> "context=", value |-> Null])

RECURSIVE hydrateViewPorts(_, _, _, _, _)
hydrateViewPorts(R, v, k, appInjector, hostElementInjector) ==
  IF k >= Len(R.views[v].viewPorts) THEN R
  ELSE hydrateViewPorts(
         Emit([R EXCEPT !.views[v].viewPorts[k + 1].hydrated = TRUE], v,
              [op |-> "viewPort.hydrate", index |-> k, appInjector |-> appInjector,
               hostElementInjector |-> hostElementInjector]),
         v, k + 1, appInjector, hostElementInjector)

RECURSIVE redistributeAll(_, _, _, _)
redistributeAll(P, R, v, i) ==
  LET binders == P[R.views[v].proto].elementBinders
  IN  IF R.err # "none" \/ i >= Len(binders) THEN R
      ELSE IF isPresent(binders[i + 1].componentDirective)
      THEN IF isBlank(R.views[v].preBuiltObjects[i + 1]) THEN Raise(R, "TypeError")
           ELSE LET lightDom == R.views[v].preBuiltObjects[i + 1].lightDom
                IN  redistributeAll(P,
                      IF isPresent(lightDom)
                      THEN Emit(R, v, [op |-> "lightDom.redistribute", index |-> i])
                      ELSE R,
                      v, i + 1)
      ELSE redistributeAll(P, R, v, i + 1)

RECURSIVE hydrate(_, _, _, _, _, _)
RECURSIVE hydrateBinders(_, _, _, _, _, _)

\* hydrateBinders hydrating the nested child View of a binder before the
\* directives of the binder's element injector are instantiated
hydrateBinders_ChildFirst(P, R, v, i, componentChildViewIndex, appInjector) ==
  LET binders == P[R.views[v].proto].elementBinders
  IN
  IF R.err # "none" \/ i >= Len(binders) THEN R
  ELSE
    LET componentDirective == binders[i + 1].componentDirective
        shadowDomAppInjector ==
          IF isPresent(componentDirective)
          THEN IF componentDirective.componentServices
               THEN createChild(appInjector, v, i) ELSE appInjector
          ELSE Null
        elementInjector == R.views[v].elementInjectors[i + 1]
        children == R.views[v].componentChildViews
        R1 == IF isPresent(componentDirective)
              THEN IF componentChildViewIndex >= Len(children) \/ isBlank(elementInjector)
                   THEN Raise(R, "TypeError")
                   ELSE hydrate(P, R, children[componentChildViewIndex + 1],
                                shadowDomAppInjector, InjRef(v, i), getComponent(R, v, i))
              ELSE R
        R2 == IF isPresent(elementInjector) /\ R1.err = "none"
              THEN Emit([R1 EXCEPT !.views[v].elementInjectors[i + 1].instantiated = TRUE], v,
                        [op |-> "instantiateDirectives", index |-> i,
                         appInjector |-> appInjector,
                         shadowDomAppInjector |-> shadowDomAppInjector,
                         preBuiltObjects |-> R.views[v].preBuiltObjects[i + 1]])
              ELSE R1
    IN  hydrateBinders(P, R2, v, i + 1,
                       IF isPresent(componentDirective)
                       THEN componentChildViewIndex + 1 ELSE componentChildViewIndex,
                       appInjector)

hydrateBinders(P, R, v, i, componentChildViewIndex, appInjector) ==
  LET binders == P[R.views[v].proto].elementBinders
  IN
  IF R.err # "none" \/ i >= Len(binders) THEN R
  ELSE
    LET componentDirective == binders[i + 1].componentDirective
        \* shadowDomAppInjector
        shadowDomAppInjector ==
          IF isPresent(componentDirective)
          THEN IF componentDirective.componentServices
               THEN createChild(appInjector, v, i) ELSE appInjector
          ELSE Null
        \* elementInjectors
        elementInjector == R.views[v].elementInjectors[i + 1]
        R1 == IF isPresent(elementInjector)
              THEN Emit([R EXCEPT !.views[v].elementInjectors[i + 1].instantiated = TRUE], v,
                        [op |-> "instantiateDirectives", index |-> i,
                         appInjector |-> appInjector,
                         shadowDomAppInjector |-> shadowDomAppInjector,
                         preBuiltObjects |-> R.views[v].preBuiltObjects[i + 1]])
              ELSE R
        children == R.views[v].componentChildViews
        R2 == IF isPresent(componentDirective)
              THEN IF componentChildViewIndex >= Len(children) \/ isBlank(elementInjector)
                   THEN Raise(R1, "TypeError")
                   ELSE hydrate(P, R1, children[componentChildViewIndex + 1],
                                shadowDomAppInjector, InjRef(v, i), getComponent(R1, v, i))
              ELSE R1
    IN  hydrateBinders(P, R2, v, i + 1,
                       IF isPresent(componentDirective)
                       THEN componentChildViewIndex + 1 ELSE componentChildViewIndex,
                       appInjector)

\* hydrate redistributing the light DOMs before the binders are processed
hydrate_RedistributeFirst(P, R, v, appInjector, hostElementInjector, context) ==
  LET R0 == Emit(R, v, [op |-> "hydrate", appInjector |-> appInjector,
                        hostElementInjector |-> hostElementInjector,
                        context |-> context])
  IN
  IF R.err # "none" THEN R
  ELSE IF hydrated(R.views[v]) THEN Raise(R0, "INVALID-STATE")
  ELSE LET R1 == hydrateContext(R0, v, context)
           R2 == hydrateViewPorts(R1, v, 0, appInjector, hostElementInjector)
           R3 == redistributeAll(P, R2, v, 0)
           R4 == hydrateBinders(P, R3, v, 0, 0, appInjector)
       IN  IF "viewPorts" \in R.views[v].nullLists THEN Raise(R1, "TypeError")
           ELSE IF R4.err # "none" THEN R4 ELSE Emit(R4, v, [op |-> "hydrate.return"])

hydrate(P, R, v, appInjector, hostElementInjector, context) ==
  LET R0 == Emit(R, v, [op |-> "hydrate", appInjector |-> appInjector,
                        hostElementInjector |-> hostElementInjector,
                        context |-> context])
  IN
  IF R.err # "none" THEN R
  ELSE IF hydrated(R.views[v]) THEN Raise(R0, "INVALID-STATE")
  ELSE LET R1 == hydrateContext(R0, v, context)
           \* viewPorts
           R2 == hydrateViewPorts(R1, v, 0, appInjector, hostElementInjector)
           R3 == hydrateBinders(P, R2, v, 0, 0, appInjector)
           R4 == redistributeAll(P, R3, v, 0)
       IN  \* this.viewPorts.length of a null list
           IF "viewPorts" \in R.views[v].nullLists THEN Raise(R1, "TypeError")
           ELSE IF R4.err # "none" THEN R4 ELSE Emit(R4, v, [op |-> "hydrate.return"])

RECURSIVE dehydrate(_, _)
RECURSIVE dehydrateChildren(_, _, _)

\* dehydrate leaving the component child Views as they are
dehydrateChildren_None(R, v, i) == R

dehydrateChildren(R, v, i) ==
  IF i >= Len(R.views[v].componentChildViews) THEN R
  ELSE dehydrateChildren(dehydrate(R, R.views[v].componentChildViews[i + 1]), v, i + 1)

RECURSIVE clearAllDirectives(_, _, _)
clearAllDirectives(R, v, i) ==
  IF i >= Len(R.views[v].elementInjectors) THEN R
  ELSE clearAllDirectives(
         IF isPresent(R.views[v].elementInjectors[i + 1])
         THEN Emit([R EXCEPT !.views[v].elementInjectors[i + 1].instantiated = FALSE], v,
                   [op |-> "clearDirectives", index |-> i])
         ELSE R,
         v, i + 1)

RECURSIVE dehydrateViewPorts(_, _, _)
dehydrateViewPorts(R, v, k) ==
  IF k >= Len(R.views[v].viewPorts) THEN R
  ELSE dehydrateViewPorts(
         Emit([R EXCEPT !.views[v].viewPorts[k + 1].hydrated = FALSE], v,
              [op |-> "viewPort.dehydrate", index |-> k]),
         v, k + 1)

\* dehydrate clearing the context before the children, the injectors and
\* the viewports
dehydrate_ContextFirst(R, v) ==
  LET R0 == dehydrateContext(Emit(R, v, [op |-> "dehydrate"]), v)
      R1 == dehydrateChildren(R0, v, 0)
      R2 == clearAllDirectives(R1, v, 0)
  IN  dehydrateViewPorts(R2, v, 0)

\* dehydrate reading the length of the list of viewports without the
\* isPresent test
dehydrate_UnguardedViewPorts(R, v) ==
  LET R0 == Emit(R, v, [op |-> "dehydrate"])
      R1 == dehydrateChildren(R0, v, 0)
      R2 == clearAllDirectives(R1, v, 0)
      R3 == dehydrateViewPorts(R2, v, 0)
  IN  IF "componentChildViews" \in R.views[v].nullLists THEN Raise(R0, "TypeError")
      ELSE IF "elementInjectors" \in R.views[v].nullLists THEN Raise(R1, "TypeError")
      ELSE IF "viewPorts" \in R.views[v].nullLists THEN Raise(R2, "TypeError")
      ELSE dehydrateContext(R3, v)

dehydrate(R, v) ==
  LET R0 == Emit(R, v, [op |-> "dehydrate"])
      \* componentChildViews
      R1 == dehydrateChildren(R0, v, 0)
      \* elementInjectors
      R2 == clearAllDirectives(R1, v, 0)
      \* viewPorts
      R3 == IF "viewPorts" \in R.views[v].nullLists THEN R2 ELSE dehydrateViewPorts(R2, v, 0)
  IN  \* .length of a null list of child Views or of element injectors
      IF "componentChildViews" \in R.views[v].nullLists THEN Raise(R0, "TypeError")
      ELSE IF "elementInjectors" \in R.views[v].nullLists THEN Raise(R1, "TypeError")
      ELSE dehydrateContext(R3, v)

\* ContextWithVariableBindings.set(name, value): only keys given at
\* construction can be set
contextSet(R, v, name, value) ==
  LET context == R.views[v].context
  IN  IF context.kind # "ContextWithVariableBindingsRef" THEN Raise(R, "TypeError")
      ELSE IF ~MapContains(R.views[context.view].contextWithLocals.varBindings, name)
      THEN Raise(R, "UNSUPPORTED-KEY")
      ELSE Emit([R EXCEPT !.views[context.view].contextWithLocals.varBindings[name] = value],
                v, [op |-> "context.set", name |-> name, value |-> value])

\* setLocal without the check that the View is hydrated
setLocal_Unguarded(P, R, v, contextName, value) ==
  IF ~MapContains(P[R.views[v].proto].variableBindings, contextName)
  THEN Raise(R, "UNDECLARED-BINDING")
  ELSE LET templateName == P[R.views[v].proto].variableBindings[contextName]
       IN  contextSet(R, v, templateName, value)

\* setLocal writing the slot named by the context name
setLocal_ByContextName(P, R, v, contextName, value) ==
  IF ~hydrated(R.views[v]) THEN Raise(R, "INVALID-STATE")
  ELSE IF ~MapContains(P[R.views[v].proto].variableBindings, contextName)
  THEN Raise(R, "UNDECLARED-BINDING")
  ELSE contextSet(R, v, contextName, value)

setLocal(P, R, v, contextName, value) ==
  IF ~hydrated(R.views[v]) THEN Raise(R, "INVALID-STATE")
  ELSE IF ~MapContains(P[R.views[v].proto].variableBindings, contextName)
  THEN Raise(R, "UNDECLARED-BINDING")
  ELSE LET templateName == P[R.views[v].proto].variableBindings[contextName]
       IN  contextSet(R, v, templateName, value)

----------------------------------------------------------------------------
(* View: change dispatch *)

\* _invokeMementoFor with DirectivePropertyMemento.invoke and
\* ElementPropertyMemento.invoke: a setter is called on its target, the
\* text of a text node is set; reading a list past its end gives undefined
invokeMementoFor(R, v, record) ==
  LET memento == record.memento
      view == R.views[v]
  IN  IF memento.kind = "DirectivePropertyMemento"
      THEN LET i == memento.elementInjectorIndex
           IN  IF i + 1 > Len(view.elementInjectors) \/ isBlank(view.elementInjectors[i + 1])
               THEN Raise(R, "TypeError")
               ELSE Emit(R, v, [op |-> "setter", setterName |-> memento.setterName,
                                target |-> getAtIndex(R, v, i, memento.directiveIndex),
                                value |-> record.currentValue])
      ELSE IF memento.kind = "ElementPropertyMemento"
      THEN LET element == IF memento.elementIndex + 1 <= Len(view.bindElements)
                          THEN view.bindElements[memento.elementIndex + 1] ELSE Null
           IN  Emit(R, v, [op |-> "setter", setterName |-> memento.setterName,
                           target |-> element, value |-> record.currentValue])
      ELSE LET textNodeIndex == memento.value
               textNode == IF textNodeIndex + 1 <= Len(view.textNodes)
                           THEN view.textNodes[textNodeIndex + 1] ELSE Null
           IN  Emit(R, v, [op |-> "DOM.setText", target |-> textNode,
                           value |-> record.currentValue])

RECURSIVE invokeMementoForRecords(_, _, _, _)
RECURSIVE invokeMementoForRecords_SkipLast(_, _, _, _)

\* _invokeMementoForRecords leaving out the last record of the batch
invokeMementoForRecords_SkipLast(R, v, records, i) ==
  IF R.err # "none" \/ i + 1 >= Len(records) THEN R
  ELSE invokeMementoForRecords_SkipLast(invokeMementoFor(R, v, records[i + 1]), v, records, i + 1)

\* the loop of _invokeMementoForRecords, from record i on
invokeMementoForRecords(R, v, records, i) ==
  IF R.err # "none" \/ i >= Len(records) THEN R
  ELSE invokeMementoForRecords(invokeMementoFor(R, v, records[i + 1]), v, records, i + 1)

PropertyUpdateNew(currentValue, previousValue) ==
  [currentValue |-> currentValue, previousValue |-> previousValue]

\* the loop of _collectChanges, from record i on; an integer memento has no
\* _setterName
RECURSIVE collectChanges(_, _, _)
collectChanges(changes, records, i) ==
  IF i >= Len(records) THEN changes
  ELSE LET record == records[i + 1]
           propertyUpdate == PropertyUpdateNew(record.currentValue, record.previousValue)
           setterName == IF record.memento.kind = "int" THEN "undefined"
                         ELSE record.memento.setterName
       IN  collectChanges(MapSet(changes, setterName, propertyUpdate), records, i + 1)

\* _notifyDirectiveAboutChanges with DirectivePropertyGroupMemento.directive
notifyDirectiveAboutChanges(R, v, groupMemento, records) ==
  LET i == groupMemento.elementInjectorIndex
      view == R.views[v]
  IN  IF i + 1 > Len(view.elementInjectors) \/ isBlank(view.elementInjectors[i + 1])
      THEN Raise(R, "TypeError")
      ELSE LET dir == getAtIndex(R, v, i, groupMemento.directiveIndex)
           IN  IF instanceofOnChange(dir)
               THEN Emit(R, v, [op |-> "onChange", target |-> dir,
                                changes |-> collectChanges(<<>>, records, 0)])
               ELSE R

\* onRecordChange telling the directive before the records are applied
onRecordChange_NotifyFirst(R, v, groupMemento, records) ==
  LET R1 == IF groupMemento.kind = "DirectivePropertyGroupMemento"
            THEN notifyDirectiveAboutChanges(R, v, groupMemento, records)
            ELSE R
  IN  IF R1.err # "none" THEN R1 ELSE invokeMementoForRecords(R1, v, records, 0)

onRecordChange(R, v, groupMemento, records) ==
  LET R1 == invokeMementoForRecords(R, v, records, 0)
  IN  IF R1.err # "none" THEN R1
      ELSE IF groupMemento.kind = "DirectivePropertyGroupMemento"
      THEN notifyDirectiveAboutChanges(R1, v, groupMemento, records)
      ELSE R1

----------------------------------------------------------------------------
(* The state machine *)

NumBinders == Len(protos[1].elementBinders) + Len(protos[2].elementBinders)
Building == Len(views) = 0

\* The DOM delivers an event to the listeners of its type on the target
\* and on the target's ancestors.
EventNew(target, type) == [target |-> target, type |-> type]
RECURSIVE Contains(_, _)
Contains(element, node) ==
  \/ node = element
  \/ /\ node.kind = "Text"
     /\ Contains(element, node.parent)
  \/ /\ node.kind = "Element" /\ node.pos >= 0
     /\ element = [node EXCEPT !.pos = -1]

\* the callback instantiate registered, without its target test
eventHandler_AnyTarget(R, listener, event) ==
  Emit(R, listener.view, [op |-> "eval", expr |-> listener.expr,
                          element |-> listener.element, eventName |-> listener.eventName,
                          context |-> R.views[listener.view].context])

\* the callback instantiate registered: (event) => { if (event.target ===
\* element) expr.eval(view.context); }
eventHandler(R, listener, event) ==
  IF event.target = listener.element
  THEN Emit(R, listener.view, [op |-> "eval", expr |-> listener.expr,
                               element |-> listener.element, eventName |-> listener.eventName,
                               context |-> R.views[listener.view].context])
  ELSE R

RECURSIVE dispatchEvent(_, _, _, _)
dispatchEvent(R, ls, event, k) ==
  IF k > Len(ls) THEN R
  ELSE IF ls[k].eventName = event.type /\ Contains(ls[k].element, event.target)
  THEN dispatchEvent(eventHandler(R, ls[k], event), ls, event, k + 1)
  ELSE dispatchEvent(R, ls, event, k + 1)

\* the Views made by a top-level instantiate call (nobody's component child)
RootViews ==
  { v \in DOMAIN views :
      \A w \in DOMAIN views :
        \A k \in DOMAIN views[w].componentChildViews : views[w].componentChildViews[k] # v }

\* the Views nested below View w through componentChildViews
RECURSIVE Descendants(_)
Descendants(w) ==
  LET children == { views[w].componentChildViews[k] : k \in DOMAIN views[w].componentChildViews }
  IN  children \cup UNION { Descendants(c) : c \in children }

\* View v and the Views nested below it, as they are in heap vs
Subtree(vs, v) == [w \in {v} \cup Descendants(v) |-> vs[w]]

\* history.cycle follows the calls hydrate(c), dehydrate(), hydrate(c) made
\* one after the other on one View: what the first hydrate left, once the
\* dehydrate has followed it, and then once the second hydrate has
NoCycle == [stage |-> "none", context |-> Null, state |-> <<>>]

NoSnapshot == [view |-> Null, status |-> "none"]
Snapshot(v) == [view |-> views[v], status |-> history.status[v]]

\* The ProtoViews as constructed, each on a template drawn from ts[p]
InitOn(ts) ==
  /\ protos \in [PvIds -> {ProtoViewNew(t) : t \in Templates}]
  /\ \A p \in PvIds : protos[p].element \in ts[p]
  /\ views = <<>>
  /\ groups = EmptyMap
  /\ listeners = <<>>
  /\ history = [status |-> <<>>, aborted |-> FALSE, cycle |-> NoCycle]
  /\ before = NoSnapshot
  /\ lastCall = [op |-> "none"]
  /\ result = "ok"
  /\ log = <<>>

Bound == [kind |-> "Element", ngBinding |-> TRUE]
Unbound == [kind |-> "Element", ngBinding |-> FALSE]

\* ProtoView 1 on a template whose root is bound, ProtoView 2 (the nested
\* one) on a template whose root is not
Init == InitOn(<<{Bound}, {Unbound}>>)

\* The proto element injectors a new binder of ProtoView p may be given:
\* none, a root one, or a child of an earlier binder's.
ProtoElementInjectorsFor(p, kinds) ==
  LET i == Len(protos[p].elementBinders)
  IN  (IF "none" \in kinds THEN {Null} ELSE {})
      \cup (IF "root" \in kinds THEN {ProtoElementInjectorNew(NoParent, i)} ELSE {})
      \cup (IF "child" \in kinds
            THEN { ProtoElementInjectorNew(j, i) :
                     j \in { k \in 0..(i - 1) :
                               isPresent(protos[p].elementBinders[k + 1].protoElementInjector) } }
            ELSE {})

\* a build call leaves the heap alone
BuildCall(call) ==
  /\ Building
  /\ lastCall' = call
  /\ result' = "ok"
  /\ log' = <<>>
  /\ before' = NoSnapshot
  /\ UNCHANGED <<views, history>>
  /\ UNCHANGED <<groups, listeners>>

\* The element binders the compiler declares: an element with no directive
\* has no proto element injector; a component or a template directive sits
\* on an element with one, and a template element hosts no component.
CompiledBinders(kinds) ==
  { b \in [pei : kinds, cmp : ComponentDirectives \cup {Null}, tpl : {TemplateDirective, Null}] :
      /\ isPresent(b.cmp) => b.pei # "none"
      /\ isPresent(b.tpl) => b.pei # "none" /\ isBlank(b.cmp) }

\* Every binder bindElement accepts: any combination, a component directive
\* always with its nested ProtoView and its proto element injector.
AnyBinders(kinds) ==
  { b \in [pei : kinds, cmp : ComponentDirectives \cup {Null}, tpl : {TemplateDirective, Null}] :
      isPresent(b.cmp) => b.pei # "none" }

\* The compiler calls bindElement and sets nestedProtoView on the binder.
\* shapes are the binders a specification draws from.
BindElement(p, shapes) ==
  /\ NumBinders < MaxBinders
  /\ \E b \in shapes, q \in PvIds \cup {NoPv} :
       \E pei \in ProtoElementInjectorsFor(p, {b.pei}) :
         /\ isPresent(b.cmp) => q > p
         /\ isBlank(b.cmp) => q = NoPv
         /\ protos' = [protos EXCEPT ![p] = bindElement(@, pei, b.cmp, b.tpl, q)]
  /\ BuildCall([op |-> "bindElement", proto |-> p])

BindVariable(p, names, templateNames) ==
  \E contextName \in names, templateName \in templateNames :
    /\ protos' = [protos EXCEPT ![p] = bindVariable(@, contextName, templateName)]
    /\ BuildCall([op |-> "bindVariable", proto |-> p,
                  contextName |-> contextName, templateName |-> templateName])

Instantiate(p) ==
  LET H == instantiate(protos, Heap(views, listeners), p, Null)
  IN  /\ Cardinality(RootViews) < MaxRootViews
      /\ views' = IF H.err = "none" THEN H.views ELSE views
      /\ lastCall' = [op |-> "instantiate", proto |-> p,
                      view |-> IF H.err = "none" THEN H.ret ELSE 0]
      /\ result' = Outcome(H.err)
      /\ log' = <<>>
      /\ history' = IF H.err = "none"
                     THEN [history EXCEPT !.status = [w \in DOMAIN H.views |->
                                                         IF w \in DOMAIN views
                                                         THEN history.status[w] ELSE "new"],
                                          !.cycle = NoCycle]
                     ELSE [history EXCEPT !.cycle = NoCycle]
      /\ before' = NoSnapshot
      /\ listeners' = H.listeners
      /\ UNCHANGED <<protos, groups>>

\* the Views on which one run performed step op
Did(l, op) == { l[k].view : k \in { j \in DOMAIN l : l[j].op = op } }

\* how a View's last lifecycle call ended, after one more run
StatusAfter(R, w) ==
  IF w \in Did(R.log, "hydrate.return") THEN "hydrated"
  ELSE IF w \in Did(R.log, "dehydrate") THEN "dehydrated"
  ELSE IF w \in Did(R.log, "hydrate") /\ w \in Did(R.log, "context=") THEN "failed"
  ELSE history.status[w]

Lifecycle(v, R, cycle) ==
  /\ views' = R.views
  /\ history' = [status  |-> [w \in DOMAIN views |-> StatusAfter(R, w)],
                  aborted |-> history.aborted \/ (R.err # "none" /\ R.views # views),
                  cycle   |-> cycle]
  /\ result' = Outcome(R.err)
  /\ log' = R.log
  /\ before' = Snapshot(v)
  /\ UNCHANGED <<protos, groups, listeners>>

Hydrate(v, contexts) ==
  \E context \in contexts :
    /\ lastCall' = [op |-> "hydrate", view |-> v, context |-> context]
    /\ Lifecycle(v, hydrate(protos, Run(views), v, AppInjector, Null, context),
                 IF /\ lastCall.op = "dehydrate" /\ lastCall.view = v
                    /\ history.cycle.stage = "dehydrated"
                    /\ history.cycle.context = context
                 THEN [history.cycle EXCEPT !.stage = "rehydrated"]
                 ELSE NoCycle)

Dehydrate(v) ==
  /\ lastCall' = [op |-> "dehydrate", view |-> v]
  /\ Lifecycle(v, dehydrate(Run(views), v),
               IF lastCall.op = "hydrate" /\ lastCall.view = v /\ result = "ok"
               THEN [stage |-> "dehydrated", context |-> lastCall.context,
                     state |-> Subtree(views, v)]
               ELSE NoCycle)

SetLocal(v, names, values) ==
  \E contextName \in names, value \in values :
    /\ lastCall' = [op |-> "setLocal", view |-> v, contextName |-> contextName,
                    value |-> value]
    /\ Lifecycle(v, setLocal(protos, Run(views), v, contextName, value), NoCycle)

\* The bootstrapper wraps a compiled ProtoView once.
CreateRootProtoView(p, elements, types) ==
  \E insertionElement \in elements, rootComponentAnnotatedType \in types :
    /\ RootPvId \notin DOMAIN protos
    /\ protos' = [q \in DOMAIN protos \cup {RootPvId} |->
                    IF q = RootPvId
                    THEN createRootProtoView(p, insertionElement, rootComponentAnnotatedType)
                    ELSE protos[q]]
    /\ BuildCall([op |-> "createRootProtoView", proto |-> p,
                  insertionElement |-> insertionElement,
                  rootComponentAnnotatedType |-> rootComponentAnnotatedType])

\* A caller constructs a View itself, for a ProtoView without binders ...
ConstructView(p) ==
  LET view == ViewNew(p, <<CloneRoot(Len(views) + 1)>>, protos[p].protoContextLocals)
  IN  /\ Len(views) < MaxConstructed
      /\ Len(protos[p].elementBinders) = 0
      /\ views' = Append(views, view)
      /\ history' = [history EXCEPT !.status = Append(@, "new"), !.cycle = NoCycle]
      /\ lastCall' = [op |-> "new View", proto |-> p, view |-> Len(views) + 1]
      /\ result' = "ok"
      /\ log' = <<>>
      /\ before' = NoSnapshot
      /\ UNCHANGED <<protos, groups, listeners>>

\* ... and calls init on it with empty lists, the list of viewports being
\* empty or null.
InitView(v, viewPortLists) ==
  \E viewPorts \in viewPortLists :
    /\ views[v].nullLists = ListNames
    /\ views' = [views EXCEPT ![v] = init(@, <<>>, <<>>, <<>>, <<>>, viewPorts, <<>>, <<>>)]
    /\ lastCall' = [op |-> "init", view |-> v, viewPorts |-> viewPorts]
    /\ result' = "ok"
    /\ log' = <<>>
    /\ before' = Snapshot(v)
    /\ history' = [history EXCEPT !.cycle = NoCycle]
    /\ UNCHANGED <<protos, groups, listeners>>

\* The compiler registers an event binding on the binder it has just added.
BindEvent(p, eventNames, expressions) ==
  \E eventName \in eventNames, expression \in expressions :
    /\ Len(protos[p].elementBinders) > 0
    /\ protos' = [protos EXCEPT ![p] = bindEvent(@, eventName, expression)]
    /\ BuildCall([op |-> "bindEvent", proto |-> p,
                  eventName |-> eventName, expression |-> expression])

\* the nodes an event can be fired at: the root element of a View, its
\* bound descendants, a text child of either, and a node outside every View
OutsideNode == [kind |-> "Element", owner |-> "document", id |-> 0, pos |-> -1]
EventTargets ==
  LET elements == UNION { { views[v].nodes[1] } \cup
                            { BoundDescendant(views[v].nodes[1], k) : k \in 0..(MaxBinders - 1) }
                          : v \in DOMAIN views }
  IN  elements \cup { TextNode(e, 0) : e \in elements } \cup {OutsideNode}

\* The browser fires an event on a node, in any state after instantiate.
FireEvent(eventNames) ==
  \E target \in EventTargets, type \in eventNames :
    LET R == dispatchEvent(Run(views), listeners, EventNew(target, type), 1)
    IN  /\ Len(views) > 0
        /\ lastCall' = [op |-> "event", target |-> target, eventName |-> type]
        /\ result' = Outcome(R.err)
        /\ log' = R.log
        /\ before' = NoSnapshot
        /\ history' = [history EXCEPT !.cycle = NoCycle]
        /\ UNCHANGED <<protos, views, groups, listeners>>

NumBindings == Len(protos[1].protoRecordRange) + Len(protos[2].protoRecordRange)

\* The compiler registers bindings on the binder it has just added.
BindingCall(p) ==
  /\ Len(protos[p].elementBinders) > 0
  /\ NumBindings < MaxBindings

BindTextNode(p, indices) ==
  \E indexInParent \in indices :
    /\ BindingCall(p)
    /\ protos' = [protos EXCEPT ![p] =
                     bindTextNode(@, indexInParent, AST(Len(protos[p].elementBinders) - 1))]
    /\ BuildCall([op |-> "bindTextNode", proto |-> p, indexInParent |-> indexInParent])

BindElementProperty(p, setterNames) ==
  \E setterName \in setterNames :
    /\ BindingCall(p)
    /\ protos' = [protos EXCEPT ![p] =
                     bindElementProperty(@, AST(Len(protos[p].elementBinders) - 1), setterName)]
    /\ BuildCall([op |-> "bindElementProperty", proto |-> p, setterName |-> setterName])

\* A directive property is bound on an element that has directives, so on
\* a binder with a proto element injector.
BindDirectiveProperty(p, directiveIndices, setterNames) ==
  \E directiveIndex \in directiveIndices, setterName \in setterNames :
    LET b == bindDirectiveProperty(groups, protos[p], directiveIndex,
                                   AST(Len(protos[p].elementBinders) - 1), setterName)
    IN  /\ BindingCall(p)
        /\ isPresent(Last(protos[p].elementBinders).protoElementInjector)
        /\ Building
        /\ protos' = [protos EXCEPT ![p] = b.pv]
        /\ groups' = b.groups
        /\ lastCall' = [op |-> "bindDirectiveProperty", proto |-> p,
                        directiveIndex |-> directiveIndex, setterName |-> setterName]
        /\ result' = "ok"
        /\ log' = <<>>
        /\ before' = NoSnapshot
        /\ UNCHANGED <<views, history, listeners>>

\* the members of a finite set of integers, in ascending order
Ascending(S) ==
  CHOOSE seq \in [1..Cardinality(S) -> S] :
    \A a, b \in 1..Cardinality(S) : a < b => seq[a] < seq[b]

\* Change detection calls onRecordChange with a group memento of the View's
\* record range and the records of that group it found changed, in the
\* order of the range; a changed record's value differs from its previous one.
OnRecordChange(v, values) ==
  LET protoRecordRange == protos[views[v].proto].protoRecordRange
  IN  \E groupMemento \in { protoRecordRange[k].groupMemento : k \in DOMAIN protoRecordRange } :
        LET members == { k \in DOMAIN protoRecordRange :
                           protoRecordRange[k].groupMemento = groupMemento }
        IN  \E changed \in (SUBSET members) \ {{}} :
              \E currentValue \in [changed -> values],
                 previousValue \in [changed -> values \cup {NoValue}] :
                LET order == Ascending(changed)
                    records == [k \in DOMAIN order |->
                                  RecordNew(protoRecordRange[order[k]],
                                            currentValue[order[k]], previousValue[order[k]])]
                IN  /\ \A k \in changed : currentValue[k] # previousValue[k]
                    /\ lastCall' = [op |-> "onRecordChange", view |-> v,
                                    groupMemento |-> groupMemento, records |-> records]
                    /\ Lifecycle(v, onRecordChange(Run(views), v, groupMemento, records), NoCycle)

\* The lifecycle of composed Views: the binders the compiler declares, at
\* most one declared local per ProtoView, a null and a non-null context.
Next ==
  \/ \E p \in PvIds : BindElement(p, CompiledBinders({"none", "root"}))
  \/ \E p \in PvIds : BindVariable(p, {"a"}, {"x"})
  \/ \E p \in PvIds : Instantiate(p)
  \/ \E v \in DOMAIN views : Hydrate(v, {Null, Ctx(1)})
  \/ \E v \in DOMAIN views : Dehydrate(v)
  \/ \E v \in DOMAIN views : SetLocal(v, {"a"}, {"v1"})

Spec == Init /\ [][Next]_vars

\* Local variables: every declaration of locals on ProtoView 1, whose Views
\* have no element injector or plain ones.
NextLocals ==
  \/ BindElement(1, {[pei |-> "root", cmp |-> Null, tpl |-> Null]})
  \/ BindVariable(1, ContextNames, TemplateNames)
  \/ \E p \in PvIds : Instantiate(p)
  \/ \E v \in DOMAIN views : Hydrate(v, {Null, Ctx(1)})
  \/ \E v \in DOMAIN views : Dehydrate(v)
  \/ \E v \in DOMAIN views : SetLocal(v, ContextNames, Values)

SpecLocals == Init /\ [][NextLocals]_vars

\* Instantiation: templates with a bound or an unbound root, every binder
\* bindElement accepts, proto element injectors with and without a parent.
InitBuild == InitOn(<<{Bound, Unbound}, {Bound, Unbound}>>)

NextBuild ==
  \/ \E p \in PvIds : BindElement(p, AnyBinders({"none", "root", "child"}))
  \/ BindVariable(1, {"a"}, {"x"})
  \/ \E p \in PvIds : Instantiate(p)
  \/ \E v \in DOMAIN views : Hydrate(v, {Ctx(1)})
  \/ \E v \in DOMAIN views : Dehydrate(v)
  \/ \E v \in DOMAIN views : SetLocal(v, {"a"}, {"v1"})

SpecBuild == InitBuild /\ [][NextBuild]_vars

\* an element with no directive, and one with directives that are neither
\* a component nor a template
PlainBinders ==
  { [pei |-> k, cmp |-> Null, tpl |-> Null] : k \in {"none", "root"} }

\* Change dispatch: text, element-property and directive-property bindings
\* on the elements of ProtoView 1.
NextDispatch ==
  \/ BindElement(1, PlainBinders)
  \/ BindTextNode(1, TextIndices)
  \/ BindElementProperty(1, SetterNames)
  \/ BindDirectiveProperty(1, DirectiveIndices, SetterNames)
  \/ \E p \in PvIds : Instantiate(p)
  \/ \E v \in DOMAIN views : Hydrate(v, {Ctx(1)})
  \/ \E v \in DOMAIN views : Dehydrate(v)
  \/ \E v \in DOMAIN views : OnRecordChange(v, Values)

SpecDispatch == Init /\ [][NextDispatch]_vars

\* Interning of group mementos: directive-property bindings on the elements
\* of both ProtoViews, with small and large directive indices.
NextIntern ==
  \/ \E p \in PvIds : BindElement(p, {[pei |-> "root", cmp |-> Null, tpl |-> Null]})
  \/ \E p \in PvIds : BindDirectiveProperty(p, {0, 1, 100}, {"p"})
  \/ \E p \in PvIds : Instantiate(p)
  \/ \E v \in DOMAIN views : Hydrate(v, {Ctx(1)})
  \/ \E v \in DOMAIN views : Dehydrate(v)

SpecIntern == Init /\ [][NextIntern]_vars

\* Views a caller constructs and initialises itself, beside the ones
\* instantiate makes, for ProtoViews without binders.
NextConstructed ==
  \/ \E p \in PvIds : BindVariable(p, {"a"}, {"x"})
  \/ \E p \in PvIds : ConstructView(p)
  \/ \E v \in DOMAIN views : InitView(v, {<<>>, NullList})
  \/ \E p \in PvIds : Instantiate(p)
  \/ \E v \in DOMAIN views : Hydrate(v, {Ctx(1)})
  \/ \E v \in DOMAIN views : Dehydrate(v)
  \/ \E v \in DOMAIN views : SetLocal(v, {"a"}, {"v1"})

SpecConstructed == Init /\ [][NextConstructed]_vars

\* Bootstrapping: a compiled ProtoView wrapped by createRootProtoView, and
\* the lifecycle of the root View and the Views nested in it.
NextRoot ==
  \/ \E p \in PvIds : BindElement(p, CompiledBinders({"none", "root"}))
  \/ \E p \in PvIds : CreateRootProtoView(p, Templates, ComponentDirectives)
  \/ RootPvId \in DOMAIN protos /\ Instantiate(RootPvId)
  \/ \E v \in DOMAIN views : Hydrate(v, {Ctx(1)})
  \/ \E v \in DOMAIN views : Dehydrate(v)

SpecRoot == Init /\ [][NextRoot]_vars

\* Bound elements: element-property and text bindings on the elements of
\* ProtoView 1, whose template root is bound or not.
InitElements == InitOn(<<{Bound, Unbound}, {Unbound}>>)

NextElements ==
  \/ BindElement(1, PlainBinders)
  \/ BindTextNode(1, {0})
  \/ BindElementProperty(1, SetterNames)
  \/ Instantiate(1)
  \/ \E v \in DOMAIN views : Hydrate(v, {Ctx(1)})
  \/ \E v \in DOMAIN views : Dehydrate(v)
  \/ \E v \in DOMAIN views : OnRecordChange(v, {"v1"})

SpecElements == InitElements /\ [][NextElements]_vars

\* Every call made on an instantiated View: Views with injectors, viewports,
\* component children, text nodes and a local.
NextCalls ==
  \/ \E p \in PvIds : BindElement(p, CompiledBinders({"none", "root"}))
  \/ BindVariable(1, {"a"}, {"x"})
  \/ \E p \in PvIds : BindTextNode(p, {0})
  \/ \E p \in PvIds : Instantiate(p)
  \/ \E v \in DOMAIN views : Hydrate(v, {Ctx(1)})
  \/ \E v \in DOMAIN views : Dehydrate(v)
  \/ \E v \in DOMAIN views : SetLocal(v, {"a"}, {"v1"})
  \/ \E v \in DOMAIN views : OnRecordChange(v, {"v1"})

SpecCalls == Init /\ [][NextCalls]_vars

\* The lifecycle driven from the top: hydrate and dehydrate are called on
\* top-level Views only, which hydrate and dehydrate the Views nested in
\* them, up to three levels deep.
NextTopLevel ==
  \/ \E p \in PvIds : BindElement(p, CompiledBinders({"none", "root"}))
  \/ \E p \in PvIds : CreateRootProtoView(p, Templates, ComponentDirectives)
  \/ \E p \in DOMAIN protos : Instantiate(p)
  \/ \E v \in RootViews : Hydrate(v, {Null, Ctx(1)})
  \/ \E v \in RootViews : Dehydrate(v)

SpecTopLevel == Init /\ [][NextTopLevel]_vars

\* Events: event bindings on the elements of ProtoView 1, whose template
\* root is bound or not and which declares a local; events fired on and
\* around the elements of its View in every lifecycle state.
EventNames == {"click", "keyup"}
NextEvents ==
  \/ BindElement(1, PlainBinders)
  \/ BindVariable(1, {"a"}, {"x"})
  \/ BindEvent(1, EventNames, {AST(0), AST(1)})
  \/ Instantiate(1)
  \/ \E v \in DOMAIN views : Hydrate(v, {Ctx(1), Ctx(2)})
  \/ \E v \in DOMAIN views : Dehydrate(v)
  \/ FireEvent(EventNames)

SpecEvents == InitElements /\ [][NextEvents]_vars

----------------------------------------------------------------------------
(* The lifecycle states of a View *)

InjectorsOf(v) ==
  { i \in DOMAIN views[v].elementInjectors : isPresent(views[v].elementInjectors[i]) }

LocalsOf(view) ==
  IF isPresent(view.contextWithLocals) THEN view.contextWithLocals.varBindings ELSE EmptyMap

StateHydrated(v) ==
  /\ isPresent(views[v].context)
  /\ \A i \in InjectorsOf(v) : views[v].elementInjectors[i].instantiated

StateDehydrated(v) ==
  /\ isBlank(views[v].context)
  /\ \A i \in InjectorsOf(v) : ~views[v].elementInjectors[i].instantiated
  /\ \A k \in DOMAIN views[v].viewPorts : ~views[v].viewPorts[k].hydrated
  /\ \A n \in DOMAIN LocalsOf(views[v]) : LocalsOf(views[v])[n] = NoValue

\* C1: as long as every call made so far completed (none threw midway),
\* every View is either HYDRATED (context non-null, directives instantiated
\* on every element injector) or DEHYDRATED (context null, every injector
\* cleared, every viewport dehydrated, every context local null).
C1_TwoLifecycleStates ==
  ~history.aborted => \A v \in DOMAIN views : StateHydrated(v) \/ StateDehydrated(v)

\* C2: a hydrate call on a View whose last lifecycle call was a hydrate that
\* returned normally (no dehydrate since) fails with INVALID-STATE, whatever
\* the context argument of either call.
C2_SecondHydrateFails ==
  (lastCall.op = "hydrate" /\ before.status = "hydrated") => result = "INVALID-STATE"

\* C3: setLocal on a dehydrated View (never hydrated since instantiate, or
\* dehydrated since its last hydrate) fails with INVALID-STATE for every
\* name, declared or not, and writes nothing.
C3_SetLocalOnDehydratedFails ==
  (lastCall.op = "setLocal" /\ before.status \in {"new", "dehydrated"})
    => /\ result = "INVALID-STATE"
       /\ views[lastCall.view] = before.view
       /\ log = <<>>

C3_Witness ==
  /\ lastCall.op = "setLocal"
  /\ before.status = "dehydrated"
  /\ MapContains(protos[views[lastCall.view].proto].variableBindings, lastCall.contextName)
  /\ result = "INVALID-STATE"

\* C4: setLocal(name, value) on a View that reports hydrated fails with
\* UNDECLARED-BINDING and writes nothing when name is no key of the
\* ProtoView's variableBindings; otherwise it succeeds and stores value in
\* the slot named variableBindings[name], and changes no other slot.
C4_SetLocalOnHydrated ==
  (lastCall.op = "setLocal" /\ hydrated(before.view))
    => LET v == lastCall.view
           variableBindings == protos[views[v].proto].variableBindings
       IN  IF ~MapContains(variableBindings, lastCall.contextName)
           THEN result = "UNDECLARED-BINDING" /\ views[v] = before.view
           ELSE /\ result = "ok"
                /\ views[v] =
                     [before.view EXCEPT
                        !.contextWithLocals.varBindings[variableBindings[lastCall.contextName]] =
                          lastCall.value]

\* a declared local is set while another slot holds a value
C4_Witness ==
  /\ lastCall.op = "setLocal"
  /\ result = "ok"
  /\ LET v == lastCall.view
         slot == protos[views[v].proto].variableBindings[lastCall.contextName]
     IN  /\ LocalsOf(views[v])[slot] = lastCall.value
         /\ LocalsOf(before.view)[slot] # lastCall.value
         /\ \E n \in DOMAIN LocalsOf(views[v]) \ {slot} :
              LocalsOf(views[v])[n] \notin {NoValue, lastCall.value}

\* C8: every View instantiate returned (the nested ones included) has one
\* elementInjectors slot and one preBuiltObjects slot per element binder of
\* its ProtoView; elementInjectors[i] is null exactly when binder i has no
\* proto element injector, and preBuiltObjects[i] is set exactly when
\* elementInjectors[i] is not null.
C8_InjectorsPerBinder ==
  \A v \in DOMAIN views :
    LET binders == protos[views[v].proto].elementBinders
    IN  /\ Len(views[v].elementInjectors) = Len(binders)
        /\ Len(views[v].preBuiltObjects) = Len(binders)
        /\ \A i \in DOMAIN binders :
             /\ isBlank(views[v].elementInjectors[i]) <=> isBlank(binders[i].protoElementInjector)
             /\ isPresent(views[v].preBuiltObjects[i]) <=> isPresent(views[v].elementInjectors[i])

\* instantiate returned a View of a ProtoView with a binder that has no
\* proto element injector and, after it, one that has
C8_Witness ==
  /\ lastCall.op = "instantiate"
  /\ result = "ok"
  /\ LET view == views[lastCall.view]
     IN  /\ Len(view.elementInjectors) = 2
         /\ isBlank(view.elementInjectors[1])
         /\ isPresent(view.elementInjectors[2])

----------------------------------------------------------------------------
(* Change dispatch *)

\* what elementInjectors[i].getAtIndex(d) of View v answers in the current state
DirectiveAt(v, i, d) ==
  IF views[v].elementInjectors[i + 1].instantiated THEN Directive(v, i, d) ELSE Null

\* the one destination a memento selects in View v
Destination(v, memento) ==
  IF memento.kind = "DirectivePropertyMemento"
  THEN DirectiveAt(v, memento.elementInjectorIndex, memento.directiveIndex)
  ELSE IF memento.kind = "ElementPropertyMemento"
  THEN views[v].bindElements[memento.elementIndex + 1]
  ELSE views[v].textNodes[memento.value + 1]

\* C5: in an onRecordChange call for a directive-property group whose
\* directive implements OnChange, onChange is called exactly once, on that
\* directive, as the last step, after the setter of every record of the
\* batch; the mapping it is given has exactly the setter names of the
\* batch as keys, under each name the {currentValue, previousValue} of the
\* record of that name (of the last one if several records have the
\* name), so N entries for N records of N different properties. In every
\* other call (a text-node or element-property group, a directive without
\* OnChange) onChange is not called.
C5_OnChangeOncePerBatch ==
  lastCall.op = "onRecordChange" =>
    LET v == lastCall.view
        groupMemento == lastCall.groupMemento
        records == lastCall.records
        notified == { j \in DOMAIN log : log[j].op = "onChange" }
        names == { records[k].memento.setterName : k \in DOMAIN records }
    IN  IF /\ groupMemento.kind = "DirectivePropertyGroupMemento"
           /\ instanceofOnChange(DirectiveAt(v, groupMemento.elementInjectorIndex,
                                             groupMemento.directiveIndex))
        THEN /\ notified = {Len(log)}
             /\ Len(log) = Len(records) + 1
             /\ \A k \in DOMAIN records :
                  log[k].op = "setter" /\ log[k].setterName = records[k].memento.setterName
             /\ log[Len(log)].target = DirectiveAt(v, groupMemento.elementInjectorIndex,
                                                   groupMemento.directiveIndex)
             /\ LET changes == log[Len(log)].changes
                IN  /\ DOMAIN changes = names
                    /\ \A k \in DOMAIN records :
                         (\A j \in DOMAIN records :
                            j > k => records[j].memento.setterName # records[k].memento.setterName)
                         => changes[records[k].memento.setterName] =
                              [currentValue  |-> records[k].currentValue,
                               previousValue |-> records[k].previousValue]
                    /\ Cardinality(names) = Len(records)
                         => Cardinality(DOMAIN changes) = Len(records)
        ELSE notified = {}

\* a batch of two records of two different properties of one directive
\* that implements OnChange was dispatched and the directive was told
C5_Witness ==
  /\ lastCall.op = "onRecordChange"
  /\ lastCall.groupMemento.kind = "DirectivePropertyGroupMemento"
  /\ Len(lastCall.records) = 2
  /\ lastCall.records[1].memento.setterName # lastCall.records[2].memento.setterName
  /\ \E j \in DOMAIN log : log[j].op = "onChange"

\* C6: onRecordChange performs exactly one write per record of the batch,
\* in batch order and nothing else besides onChange: the k-th write is the
\* setter of the k-th record's directive-property memento called on
\* elementInjectors[elementInjectorIndex].getAtIndex(directiveIndex), or the
\* setter of its element-property memento called on
\* bindElements[elementIndex], or the text of textNodes[index] being set,
\* each with the record's current value; the View itself is left as it was.
C6_DispatchByMementoKind ==
  lastCall.op = "onRecordChange" =>
    LET v == lastCall.view
        records == lastCall.records
        writes == SelectSeq(log, LAMBDA e : e.op # "onChange")
    IN  /\ result = "ok"
        /\ Len(writes) = Len(records)
        /\ \A k \in DOMAIN records :
             LET memento == records[k].memento
             IN  /\ writes[k].view = v
                 /\ writes[k].op = IF memento.kind = "int" THEN "DOM.setText" ELSE "setter"
                 /\ memento.kind # "int" => writes[k].setterName = memento.setterName
                 /\ writes[k].target = Destination(v, memento)
                 /\ writes[k].value = records[k].currentValue
        /\ views[v] = before.view

\* a batch of two records was applied, in order, to the directive in slot 1
\* of a hydrated View's element injector
C6_Witness ==
  /\ lastCall.op = "onRecordChange"
  /\ result = "ok"
  /\ Len(lastCall.records) = 2
  /\ Len(log) = 2
  /\ \A k \in 1..2 :
       /\ log[k].op = "setter"
       /\ lastCall.records[k].memento.kind = "DirectivePropertyMemento"
       /\ log[k].target = Directive(lastCall.view,
                                    lastCall.records[k].memento.elementInjectorIndex, 1)

\* C7: when hydrate(c), dehydrate() and hydrate(c) with the same context
\* are called one after the other on a View and the first hydrate
\* succeeded, the second hydrate succeeds and the View and the Views nested
\* below it are exactly as the first hydrate left them.
C7_RehydrateSameState ==
  history.cycle.stage = "rehydrated" =>
    /\ result = "ok"
    /\ Subtree(views, lastCall.view) = history.cycle.state

\* the cycle was run with a non-null context on a View that has a child
\* View, an element injector and a declared local
C7_Witness ==
  /\ history.cycle.stage = "rehydrated"
  /\ lastCall.op = "hydrate"
  /\ isPresent(lastCall.context)
  /\ Descendants(lastCall.view) # {}
  /\ DOMAIN LocalsOf(views[lastCall.view]) # {}

----------------------------------------------------------------------------
(* The order of the steps of hydrate and dehydrate *)

ComponentBinders(v) ==
  { i \in 0..(Len(protos[views[v].proto].elementBinders) - 1) :
      isPresent(protos[views[v].proto].elementBinders[i + 1].componentDirective) }

\* positions of the log where View w performed step op
Steps(w, op) == { j \in DOMAIN log : log[j].view = w /\ log[j].op = op }
\* the nested hydrate calls View w made: the host is one of w's injectors
NestedHydrates(w) ==
  { j \in DOMAIN log :
      /\ log[j].op = "hydrate"
      /\ log[j].hostElementInjector.kind = "ElementInjectorRef"
      /\ log[j].hostElementInjector.view = w }

\* C9: in every hydrate call, (a) each nested child View is hydrated after
\* the directives of its binder's element injector were instantiated, with
\* that injector's component instance as context, the k-th component binder
\* taking componentChildViews[k]; every component binder of a View whose
\* hydrate returned had its child hydrated; (b) all viewport hydrate hooks
\* of a View run, in declaration order, before any of its binders is processed.
C9_HydrateOrder ==
  lastCall.op = "hydrate" =>
    \A w \in DOMAIN views :
      /\ \A j \in NestedHydrates(w) :
           LET i == log[j].hostElementInjector.index
               k == Cardinality({ c \in ComponentBinders(w) : c < i })
           IN  /\ i \in ComponentBinders(w)
               /\ \E d \in Steps(w, "instantiateDirectives") : d < j /\ log[d].index = i
               /\ log[j].context = Directive(w, i, 0)
               /\ log[j].view = views[w].componentChildViews[k + 1]
      /\ Steps(w, "hydrate.return") # {} =>
           \A i \in ComponentBinders(w) :
             \E j \in NestedHydrates(w) : log[j].hostElementInjector.index = i
      /\ Steps(w, "recordRange.setContext") # {} =>
           /\ Cardinality(Steps(w, "viewPort.hydrate")) = Len(views[w].viewPorts)
           /\ \A a, b \in Steps(w, "viewPort.hydrate") :
                a < b => log[a].index < log[b].index
           /\ \A a \in Steps(w, "viewPort.hydrate") :
                \A b \in Steps(w, "instantiateDirectives") \cup NestedHydrates(w) : a < b

\* a View with two component binders (and so two child Views) was hydrated
C9_Witness ==
  /\ lastCall.op = "hydrate"
  /\ result = "ok"
  /\ Cardinality(NestedHydrates(lastCall.view)) = 2

\* the rank of a step in the dehydrate of View w
DehydratePhase(w, e) ==
  IF e.view \in Descendants(w) THEN 1
  ELSE IF e.view = w /\ e.op = "dehydrate" THEN 0
  ELSE IF e.view = w /\ e.op = "clearDirectives" THEN 2
  ELSE IF e.view = w /\ e.op = "viewPort.dehydrate" THEN 3
  ELSE IF e.view = w /\ e.op = "contextWithLocals.clearValues" THEN 4
  ELSE IF e.view = w /\ e.op = "context=" THEN 5
  ELSE 6

\* C10: every dehydrate (the one called and the nested ones) first
\* dehydrates every component child View, then clears the directives of
\* every non-null element injector, then dehydrates every viewport, and
\* clears the context last; a View that reported hydrated when the call
\* began still does at every step before that last one, and not after.
C10_DehydrateOrder ==
  lastCall.op = "dehydrate" =>
    \A w \in DOMAIN views :
      \A j \in Steps(w, "dehydrate") :
        \E f \in Steps(w, "context=") :
          /\ j < f
          /\ \A a, b \in j..f : a < b => DehydratePhase(w, log[a]) <= DehydratePhase(w, log[b])
          /\ \A a \in j..f : DehydratePhase(w, log[a]) < 6
          /\ \A c \in Descendants(w) : \E a \in j..f : log[a].view = c /\ log[a].op = "dehydrate"
          /\ \A i \in InjectorsOf(w) :
               \E a \in j..f : log[a].view = w /\ log[a].op = "clearDirectives" /\ log[a].index = i - 1
          /\ \A k \in DOMAIN views[w].viewPorts :
               \E a \in j..f : log[a].view = w /\ log[a].op = "viewPort.dehydrate" /\ log[a].index = k - 1
          /\ \A a \in j..(f - 1) : log[a].view = w => log[a].hydrated = log[j].hydrated
          /\ ~log[f].hydrated /\ isBlank(log[f].value)
          /\ isBlank(views[w].context)

\* a hydrated View with a child View, an element injector, a viewport and
\* a local that holds a value was dehydrated
C10_Witness ==
  /\ lastCall.op = "dehydrate"
  /\ hydrated(before.view)
  /\ Descendants(lastCall.view) # {}
  /\ InjectorsOf(lastCall.view) # {}
  /\ Len(views[lastCall.view].viewPorts) > 0
  /\ \E n \in DOMAIN LocalsOf(before.view) : LocalsOf(before.view)[n] # NoValue

----------------------------------------------------------------------------
(* Text nodes and bound elements of an instantiated View *)

\* the element instantiate resolves binder i of View v to
ElementOf(v, i) ==
  LET pv == protos[views[v].proto]
      rootElementClone == views[v].nodes[1]
  IN  IF i = 0 /\ pv.rootBindingOffset = 1 THEN rootElementClone
      ELSE BoundDescendant(rootElementClone, i - pv.rootBindingOffset)

\* the bindTextNode calls made on ProtoView p from binder i on, in
\* declaration order: the binder and the indexInParent of each
RECURSIVE TextDeclarations(_, _)
TextDeclarations(p, i) ==
  LET binders == protos[p].elementBinders
  IN  IF i >= Len(binders) THEN <<>>
      ELSE [j \in DOMAIN binders[i + 1].textNodeIndices |->
              [binder |-> i, indexInParent |-> binders[i + 1].textNodeIndices[j]]]
           \o TextDeclarations(p, i + 1)

\* the text-node mementos of ProtoView p, in the order they were registered
TextMementos(p) ==
  LET registered == SelectSeq(protos[p].protoRecordRange, LAMBDA r : r.memento.kind = "int")
  IN  [k \in DOMAIN registered |-> registered[k].memento.value]

\* C11: the text-node mementos of every ProtoView are 0, 1, 2, ... in
\* declaration order, and in every View textNodes[m] is the child at
\* position indexInParent of the element of the binder on which memento m
\* was declared.
C11_TextNodesAddressDeclaredNode ==
  /\ \A p \in PvIds : \A k \in DOMAIN TextMementos(p) : TextMementos(p)[k] = k - 1
  /\ \A v \in DOMAIN views :
       LET declared == TextDeclarations(views[v].proto, 0)
       IN  /\ Len(views[v].textNodes) = Len(declared)
           /\ \A m \in DOMAIN declared :
                views[v].textNodes[m] =
                  TextNode(ElementOf(v, declared[m].binder), declared[m].indexInParent)

\* the proto records of View v that carry an ElementPropertyMemento
ElementPropertyRecords(v) ==
  SelectSeq(protos[views[v].proto].protoRecordRange,
            LAMBDA r : r.memento.kind = "ElementPropertyMemento")

\* C12: in every View, the element built for binder i (the one its
\* PreBuiltObjects holds) is the root clone iff i = 0 and rootBindingOffset
\* = 1 and otherwise the (i - rootBindingOffset)-th bound descendant; the
\* elementIndex of every ElementPropertyMemento addresses, in bindElements,
\* the element of the binder on which bindElementProperty was called; and
\* with a bound root that has a property binding bindElements[0] is the
\* root node itself.
C12_BoundElementsAddressed ==
  \A v \in DOMAIN views :
    LET pv == protos[views[v].proto]
        rootElementClone == views[v].nodes[1]
    IN  /\ \A i \in DOMAIN pv.elementBinders :
             isPresent(views[v].preBuiltObjects[i]) =>
               /\ views[v].preBuiltObjects[i].element =
                    IF i - 1 = 0 /\ pv.rootBindingOffset = 1 THEN rootElementClone
                    ELSE BoundDescendant(rootElementClone, i - 1 - pv.rootBindingOffset)
               /\ (views[v].preBuiltObjects[i].element = rootElementClone)
                    <=> (i - 1 = 0 /\ pv.rootBindingOffset = 1)
        /\ \A k \in DOMAIN ElementPropertyRecords(v) :
             LET r == ElementPropertyRecords(v)[k]
             IN  /\ r.memento.elementIndex + 1 \in DOMAIN views[v].bindElements
                 /\ views[v].bindElements[r.memento.elementIndex + 1] =
                      ElementOf(v, r.expression.element)
        /\ (/\ pv.rootBindingOffset = 1
            /\ Len(pv.elementBinders) > 0
            /\ pv.elementBinders[1].hasElementPropertyBindings)
             => views[v].bindElements[1] = rootElementClone

\* a View of a ProtoView with a bound root was instantiated whose root and
\* whose first bound descendant both have an element-property binding
C12_Witness ==
  /\ lastCall.op = "instantiate"
  /\ result = "ok"
  /\ protos[views[lastCall.view].proto].rootBindingOffset = 1
  /\ Len(views[lastCall.view].bindElements) = 2
  /\ views[lastCall.view].bindElements[1] = views[lastCall.view].nodes[1]
  /\ isPresent(views[lastCall.view].preBuiltObjects[2])

----------------------------------------------------------------------------
(* Bootstrapping *)

----------------------------------------------------------------------------
(* Views with null lists *)

\* C14: dehydrate() called on a View whose list of viewports is null
\* returns without an error and leaves the View with a null context.
C14_DehydrateToleratesNullViewPorts ==
  (lastCall.op = "dehydrate" /\ "viewPorts" \in before.view.nullLists) =>
    /\ result = "ok"
    /\ isBlank(views[lastCall.view].context)

\* C14, amended: dehydrate() called on a View that init gave a null list of
\* viewports and non-null lists otherwise returns without an error and
\* leaves the View with a null context.
C14_DehydrateToleratesOnlyNullViewPorts ==
  (lastCall.op = "dehydrate" /\ before.view.nullLists = {"viewPorts"}) =>
    /\ result = "ok"
    /\ isBlank(views[lastCall.view].context)
    /\ ~hydrated(views[lastCall.view])

\* a View with a null list of viewports that had a context was dehydrated
C14_Witness ==
  /\ lastCall.op = "dehydrate"
  /\ before.view.nullLists = {"viewPorts"}
  /\ isPresent(before.view.context)

----------------------------------------------------------------------------
(* Content redistribution *)

\* the component binders of View w whose PreBuiltObjects hold a light DOM
LightDomBinders(w) ==
  { i \in ComponentBinders(w) :
      /\ isPresent(views[w].preBuiltObjects[i + 1])
      /\ isPresent(views[w].preBuiltObjects[i + 1].lightDom) }

\* C15: in every hydrate call, a View's redistribute() calls come after the
\* directives of every one of its element injectors were instantiated and
\* after the hydrate of every one of its nested component Views returned;
\* a View whose hydrate returned has called redistribute() exactly once for
\* each component binder whose prebuilt light DOM is non-null, in binder
\* index order, and for no other binder.
C15_RedistributeAfterBinders ==
  lastCall.op = "hydrate" =>
    \A w \in DOMAIN views :
      LET redistributed == Steps(w, "lightDom.redistribute")
      IN  /\ \A r \in redistributed :
               /\ log[r].index \in LightDomBinders(w)
               /\ \A i \in InjectorsOf(w) :
                    \E d \in Steps(w, "instantiateDirectives") : d < r /\ log[d].index = i - 1
               /\ \A k \in DOMAIN views[w].componentChildViews :
                    \E c \in Steps(views[w].componentChildViews[k], "hydrate.return") : c < r
               /\ \A d \in Steps(w, "instantiateDirectives") \cup NestedHydrates(w) : d < r
          /\ \A a, b \in redistributed : a < b => log[a].index < log[b].index
          /\ Steps(w, "hydrate.return") # {} =>
               { log[r].index : r \in redistributed } = LightDomBinders(w)

\* a View with a component that has a light DOM and one that has none was
\* hydrated
C15_Witness ==
  /\ lastCall.op = "hydrate"
  /\ result = "ok"
  /\ Steps(lastCall.view, "lightDom.redistribute") # {}
  /\ ComponentBinders(lastCall.view) \ LightDomBinders(lastCall.view) # {}

----------------------------------------------------------------------------
(* Interning of group mementos *)

\* the proto records bindDirectiveProperty registered, over all ProtoViews
DirectivePropertyRecords ==
  { r \in UNION { { protos[p].protoRecordRange[k] : k \in DOMAIN protos[p].protoRecordRange }
                  : p \in DOMAIN protos } :
      r.memento.kind = "DirectivePropertyMemento" }

\* C16: two bindDirectiveProperty calls for the same pair
\* (elementInjectorIndex, directiveIndex) got the same group memento, two
\* calls for different pairs got different group mementos, and the indices
\* stored in the group memento a call got are the pair of that call, in
\* whatever ProtoViews the calls were made.
C16_GroupMementoInterned ==
  /\ \A r \in DirectivePropertyRecords :
       /\ r.groupMemento.elementInjectorIndex = r.memento.elementInjectorIndex
       /\ r.groupMemento.directiveIndex = r.memento.directiveIndex
  /\ \A r1, r2 \in DirectivePropertyRecords :
       (r1.groupMemento = r2.groupMemento)
         <=> (/\ r1.memento.elementInjectorIndex = r2.memento.elementInjectorIndex
              /\ r1.memento.directiveIndex = r2.memento.directiveIndex)

----------------------------------------------------------------------------
(* ViewPorts of structural directives *)

\* the binders of ProtoView p that carry a template directive, as indices
TemplateBinders(p) ==
  { i \in 0..(Len(protos[p].elementBinders) - 1) :
      isPresent(protos[p].elementBinders[i + 1].templateDirective) }

\* The light DOM of the nearest ancestor of binder i of View v that has one,
\* walking the parent links of the proto element injectors; Null when the
\* walk ends without one.
RECURSIVE NearestAncestorLightDom(_, _)
NearestAncestorLightDom(v, i) ==
  LET protoElementInjector == protos[views[v].proto].elementBinders[i + 1].protoElementInjector
  IN  IF isBlank(protoElementInjector) \/ protoElementInjector.parent = NoParent THEN Null
      ELSE LET p == protoElementInjector.parent
           IN  IF isPresent(views[v].preBuiltObjects[p + 1])
                  /\ isPresent(views[v].preBuiltObjects[p + 1].lightDom)
               THEN views[v].preBuiltObjects[p + 1].lightDom
               ELSE NearestAncestorLightDom(v, p)

\* C17: instantiate of a ProtoView with template binders does not fail,
\* whatever proto element injector the binders have; the View has one
\* ViewPort for each template binder, and the ViewPort's destination light
\* DOM is that of the nearest ancestor that has one (null when none has),
\* never the binder's own.
C17_ViewPortPerTemplateBinder ==
  /\ (lastCall.op = "instantiate" /\ TemplateBinders(lastCall.proto) # {})
       => result = "ok"
  /\ \A v \in DOMAIN views :
       /\ Len(views[v].viewPorts) = Cardinality(TemplateBinders(views[v].proto))
       /\ \A i \in TemplateBinders(views[v].proto) :
            LET k == Cardinality({ j \in TemplateBinders(views[v].proto) : j <= i })
                viewPort == views[v].viewPorts[k]
            IN  /\ viewPort.lightDom = NearestAncestorLightDom(v, i)
                /\ viewPort.lightDom # LightDomRef(v, i)

----------------------------------------------------------------------------
(* Events *)

\* the evaluations the last call made for the binding of event n to
\* expression x on binder i of View v, as positions of the log
Evaluations(v, i, n, x) ==
  { j \in DOMAIN log :
      /\ log[j].op = "eval"
      /\ log[j].view = v /\ log[j].element = ElementOf(v, i)
      /\ log[j].eventName = n /\ log[j].expr = x }

\* the event bindings of View v: binder, event name, expression
EventBindings(v) ==
  LET binders == protos[views[v].proto].elementBinders
  IN  UNION { { <<i - 1, binders[i].events[k].key, binders[i].events[k].value>> :
                  k \in DOMAIN binders[i].events } : i \in DOMAIN binders }

\* C18: when an event is fired, each event binding (element e, name n,
\* expression x) of each instantiated View evaluates x once, against the
\* context the View has at that moment, if the event has name n and its
\* target is e itself, and does not evaluate x otherwise; nothing else is
\* evaluated. This holds in every lifecycle state of the View.
C18_EventEvaluatesOnExactTarget ==
  lastCall.op = "event" =>
    /\ \A v \in DOMAIN views : \A b \in EventBindings(v) :
         LET evals == Evaluations(v, b[1], b[2], b[3])
         IN  IF lastCall.eventName = b[2] /\ lastCall.target = ElementOf(v, b[1])
             THEN /\ Cardinality(evals) = 1
                  /\ \A j \in evals : log[j].context = views[v].context
             ELSE evals = {}
    /\ \A j \in DOMAIN log :
         log[j].op = "eval" =>
           \E v \in DOMAIN views : \E b \in EventBindings(v) :
             j \in Evaluations(v, b[1], b[2], b[3])

\* an event was fired on the element of a binding of a View that was
\* hydrated and is now dehydrated, and the expression was evaluated against
\* the null context
C18_Witness ==
  /\ lastCall.op = "event"
  /\ \E v \in DOMAIN views : \E b \in EventBindings(v) :
       /\ history.status[v] = "dehydrated"
       /\ lastCall.target = ElementOf(v, b[1])
       /\ \E j \in Evaluations(v, b[1], b[2], b[3]) : isBlank(log[j].context)

----------------------------------------------------------------------------
(* The tree of element injectors *)

\* the hostElementInjector View v was instantiated with: the injector of the
\* component binder it is the child View of, null for a top-level View
HostOf(v) ==
  IF \E w \in DOMAIN views : \E k \in DOMAIN views[w].componentChildViews :
       views[w].componentChildViews[k] = v
  THEN LET w == CHOOSE w \in DOMAIN views : \E k \in DOMAIN views[w].componentChildViews :
                  views[w].componentChildViews[k] = v
           k == CHOOSE k \in DOMAIN views[w].componentChildViews :
                  views[w].componentChildViews[k] = v
           i == CHOOSE i \in ComponentBinders(w) :
                  Cardinality({ j \in ComponentBinders(w) : j <= i }) = k
       IN  IF isPresent(views[w].elementInjectors[i + 1]) THEN InjRef(w, i) ELSE Null
  ELSE Null

\* the binders of View v whose proto element injector has no parent, in
\* index order, as references to their injectors
RECURSIVE ParentlessInjectors(_, _)
ParentlessInjectors(v, i) ==
  LET binders == protos[views[v].proto].elementBinders
  IN  IF i >= Len(binders) THEN <<>>
      ELSE (IF /\ isPresent(binders[i + 1].protoElementInjector)
               /\ binders[i + 1].protoElementInjector.parent = NoParent
            THEN <<InjRef(v, i)>> ELSE <<>>) \o ParentlessInjectors(v, i + 1)

----------------------------------------------------------------------------
(* What the calls on an instantiated View leave alone *)

\* the objects a list holds, apart from what hydrate and dehydrate change
\* inside them: the directives of an injector, the Views of a viewport
Identity(list) ==
  [k \in DOMAIN list |->
     IF list[k].kind = "ElementInjector" THEN [list[k] EXCEPT !.instantiated = FALSE]
     ELSE IF list[k].kind = "ViewPort" THEN [list[k] EXCEPT !.hydrated = FALSE]
     ELSE list[k]]

\* old and new are one View before and after a call that kept its nodes,
\* its lists and what they hold, its record range and its locals object
SameStructure(old, new) ==
  /\ new.proto = old.proto
  /\ new.nodes = old.nodes
  /\ new.nullLists = old.nullLists
  /\ Identity(new.elementInjectors) = Identity(old.elementInjectors)
  /\ new.rootElementInjectors = old.rootElementInjectors
  /\ new.textNodes = old.textNodes
  /\ new.bindElements = old.bindElements
  /\ Identity(new.viewPorts) = Identity(old.viewPorts)
  /\ new.componentChildViews = old.componentChildViews
  /\ Identity(new.preBuiltObjects) = Identity(old.preBuiltObjects)
  /\ new.recordRange.ranges = old.recordRange.ranges
  /\ isPresent(new.contextWithLocals) = isPresent(old.contextWithLocals)
  /\ isPresent(new.contextWithLocals) =>
       DOMAIN new.contextWithLocals.varBindings = DOMAIN old.contextWithLocals.varBindings

\* C20: a hydrate, dehydrate, setLocal or onRecordChange call, however it
\* ends, leaves every View's nodes, lists (their length and the objects
\* they hold) and record range as they were; what changes is the context
\* (of the View and, with it, of its record range), the values and parent
\* of the locals, the directives of the injectors and the state of the
\* viewports.
C20_CallsKeepStructure ==
  [][ lastCall'.op \in {"hydrate", "dehydrate", "setLocal", "onRecordChange"} =>
        /\ DOMAIN views' = DOMAIN views
        /\ \A v \in DOMAIN views : SameStructure(views[v], views'[v]) ]_vars

\* dehydrate returned on a View with text nodes and an injector whose
\* directives it cleared
C20_Witness ==
  /\ lastCall.op = "dehydrate" /\ result = "ok"
  /\ isPresent(before.view.context)
  /\ isBlank(views[lastCall.view].context)
  /\ Len(views[lastCall.view].textNodes) > 0
  /\ \E i \in DOMAIN before.view.elementInjectors :
       /\ isPresent(before.view.elementInjectors[i])
       /\ before.view.elementInjectors[i].instantiated
       /\ ~views[lastCall.view].elementInjectors[i].instantiated

----------------------------------------------------------------------------
(* A hydrate that fails *)

\* C21: a hydrate call that fails with the already-hydrated error changes
\* nothing: the View (context, locals, record-range context, injectors,
\* viewports) is as it was, and the call hydrated no viewport, instantiated
\* no directive, hydrated no child View and triggered no redistribute.
C21_FailedHydrateHasNoEffect ==
  (lastCall.op = "hydrate" /\ result = "INVALID-STATE") =>
    /\ views[lastCall.view] = before.view
    /\ \A j \in DOMAIN log :
         /\ log[j].op \notin {"context=", "recordRange.setContext", "viewPort.hydrate",
                              "instantiateDirectives", "lightDom.redistribute"}
         /\ log[j].op = "hydrate" => log[j].view = lastCall.view

----------------------------------------------------------------------------
(* Hydration of the nested component tree *)

\* the component child Views of View v
ChildViews(v) ==
  { views[v].componentChildViews[k] : k \in DOMAIN views[v].componentChildViews }

\* C22: when hydrate and dehydrate are called on top-level Views only, a
\* View with component child Views is hydrated exactly when all of them
\* are, at every level of the nested tree; a hydrate that fails as already
\* hydrated was called on a hydrated View (it never fails because of a
\* nested child); and after a dehydrate no View nested below is hydrated.
C22_TreeHydratedTogether ==
  /\ \A v \in DOMAIN views :
       ChildViews(v) # {} =>
         (hydrated(views[v]) <=> \A w \in ChildViews(v) : hydrated(views[w]))
  /\ (lastCall.op = "hydrate" /\ result = "INVALID-STATE") => hydrated(before.view)
  /\ lastCall.op = "dehydrate" =>
       \A w \in Descendants(lastCall.view) : ~hydrated(views[w])

====
